---- MODULE Spec2Model ----
(***************************************************************************)
(* A model of the language-server proxy of oneline-editor:                 *)
(*   - the workspace store RealFileSystem (fs/real.ts),                    *)
(*   - the analyzer manager LanguageServerManager (lsp/manager.ts),        *)
(*   - the proxy session LSPProxy (lsp/proxy.ts) with the transport        *)
(*     handlers of index.ts and transport/websocket.ts.                    *)
(*   - the WebSocketTransport of the browser client (web/lib).             *)
(* A string is a sequence of one-character strings, so that the regular    *)
(* expressions, startsWith and the path functions of node act on what they *)
(* act on in the program.  Paths follow node's posix path module.          *)
(***************************************************************************)
EXTENDS Integers, Sequences, FiniteSets, Bags, TLC

VARIABLES
    \* --- RealFileSystem and the disk under it
    files,          \* the disk: absolute path -> content of the regular file
    dirs,           \* the disk: the set of directories (absolute paths)
    fileVersions,   \* RealFileSystem.fileVersions: uri -> version
    fileLanguages,  \* RealFileSystem.fileLanguages: uri -> languageId
    fsLast,         \* the last store operation: what it resolved and touched
    fsOps,          \* number of store operations called directly so far
    \* --- LanguageServerManager
    clients,        \* LanguageServerManager.clients: languageId -> client (0: none)
    startingClients,\* LanguageServerManager.startingClients: languageId -> start (0: none)
    lc,             \* every LanguageClient constructed, with its host and idle timer
    starts,         \* every startPromise created
    calls,          \* the getOrCreateClient calls awaiting a start, in call order
    nCalls,         \* number of getOrCreateClient calls so far
    returned,       \* the getOrCreateClient calls that completed in the last step
    stops,          \* the stopClient invocations awaiting client.stop() (a bag)
    stopAllState,   \* stopAll: "none", "pending" or "resolved"
    notified,       \* the notification emitted in the last step and where it went
    \* --- transport (websocket.ts), handlers of index.ts, LSPProxy
    wsClients,      \* clientId -> "new" (not yet connected), "open", "closed"
    clientProxies,  \* index.ts clientProxies: clientId -> proxy (0: none)
    proxies,        \* every LSPProxy constructed: its client and its uriLocks
    tasks,          \* every task given to withUriLock, in order of arrival
    observed,       \* what the analyzers were sent, in the order they were sent it
    sent,           \* the responses written to client sockets, in order
    nMsgs,          \* number of client messages received so far
    proc,           \* the node process: where its shutdown is, the 10 s timer
    \* --- the browser side (web/lib/transport/websocket.ts)
    transport       \* the WebSocketTransport, its sockets and its timers

fsVars == <<files, dirs, fileVersions, fileLanguages, fsLast, fsOps>>

mgrVars == <<clients, startingClients, lc, starts, calls, nCalls, returned, stops,
             stopAllState, notified>>

proxyVars == <<wsClients, clientProxies, proxies, tasks, observed, sent, nMsgs, proc,
               transport>>

vars == <<files, dirs, fileVersions, fileLanguages, fsLast, fsOps,
          clients, startingClients, lc, starts, calls, nCalls, returned, stops,
          stopAllState, notified,
          wsClients, clientProxies, proxies, tasks, observed, sent, nMsgs, proc,
          transport>>

----------------------------------------------------------------------------
(* Strings and node's posix path functions                                 *)

Slash == "/"
Dot == <<".">>
DotDot == <<".", ".">>

\* String.prototype.startsWith
StartsWith(s, prefix) ==
    /\ Len(prefix) <= Len(s)
    /\ SubSeq(s, 1, Len(prefix)) = prefix

RECURSIVE SplitRec(_, _, _)
SplitRec(s, cur, acc) ==
    IF s = <<>> THEN Append(acc, cur)
    ELSE IF Head(s) = Slash THEN SplitRec(Tail(s), <<>>, Append(acc, cur))
    ELSE SplitRec(Tail(s), Append(cur, Head(s)), acc)

\* the segments of s between its separators (empty segments kept)
Split(s) == SplitRec(s, <<>>, <<>>)

RECURSIVE JoinSegs(_)
JoinSegs(segs) ==
    IF segs = <<>> THEN <<>>
    ELSE IF Len(segs) = 1 THEN segs[1]
    ELSE segs[1] \o <<Slash>> \o JoinSegs(Tail(segs))

RECURSIVE NormSegs(_, _, _)
\* node's normalizeString: drops empty and "." segments, lets ".." remove the
\* segment before it, and keeps a leading ".." only when allowAboveRoot
NormSegs(segs, res, allowAboveRoot) ==
    IF segs = <<>> THEN res
    ELSE LET s == Head(segs)
             rest == Tail(segs)
         IN  IF s = <<>> \/ s = Dot THEN NormSegs(rest, res, allowAboveRoot)
             ELSE IF s = DotDot
                  THEN IF res # <<>> /\ res[Len(res)] # DotDot
                       THEN NormSegs(rest, SubSeq(res, 1, Len(res) - 1), allowAboveRoot)
                       ELSE IF allowAboveRoot
                            THEN NormSegs(rest, Append(res, DotDot), allowAboveRoot)
                            ELSE NormSegs(rest, res, allowAboveRoot)
                  ELSE NormSegs(rest, Append(res, s), allowAboveRoot)

\* path.normalize
PathNormalize(p) ==
    IF p = <<>> THEN Dot
    ELSE LET isAbsolute == p[1] = Slash
             trailing == p[Len(p)] = Slash
             body == JoinSegs(NormSegs(Split(p), <<>>, ~isAbsolute))
         IN  IF body = <<>>
             THEN (IF isAbsolute THEN <<Slash>>
                   ELSE IF trailing THEN <<".", Slash>> ELSE Dot)
             ELSE (IF isAbsolute THEN <<Slash>> ELSE <<>>) \o body
                  \o (IF trailing THEN <<Slash>> ELSE <<>>)

\* path.join of two arguments
PathJoin(a, b) ==
    IF a = <<>> /\ b = <<>> THEN Dot
    ELSE IF a = <<>> THEN PathNormalize(b)
    ELSE IF b = <<>> THEN PathNormalize(a)
    ELSE PathNormalize(a \o <<Slash>> \o b)

\* path.resolve of one argument; every path resolved in the program is
\* absolute (it was joined to the absolute workspace root)
PathResolve(p) == <<Slash>> \o JoinSegs(NormSegs(Split(p), <<>>, FALSE))

RECURSIVE StripTrailing(_)
StripTrailing(p) ==
    IF Len(p) > 1 /\ p[Len(p)] = Slash THEN StripTrailing(SubSeq(p, 1, Len(p) - 1))
    ELSE p

RECURSIVE LastSlash(_, _)
\* the index of the last separator of p at or before i, 0 if there is none
LastSlash(p, i) ==
    IF i = 0 THEN 0 ELSE IF p[i] = Slash THEN i ELSE LastSlash(p, i - 1)

\* path.dirname
PathDirname(p) ==
    LET q == StripTrailing(p)
        i == LastSlash(q, Len(q))
    IN  IF p = <<>> THEN Dot
        ELSE IF i = 0 THEN Dot
        ELSE IF i = 1 THEN <<Slash>>
        ELSE SubSeq(q, 1, i - 1)

RECURSIVE CommonLen(_, _)
CommonLen(a, b) ==
    IF a = <<>> \/ b = <<>> \/ Head(a) # Head(b) THEN 0
    ELSE 1 + CommonLen(Tail(a), Tail(b))

\* path.relative
PathRelative(from, to) ==
    LET f == NormSegs(Split(from), <<>>, FALSE)
        t == NormSegs(Split(to), <<>>, FALSE)
        k == CommonLen(f, t)
        ups == [i \in 1..(Len(f) - k) |-> DotDot]
    IN  JoinSegs(ups \o SubSeq(t, k + 1, Len(t)))

RECURSIVE LastDot(_, _)
LastDot(s, i) ==
    IF i = 0 THEN 0 ELSE IF s[i] = "." THEN i ELSE LastDot(s, i - 1)

\* path.extname: from the last "." of the last segment, "" when there is
\* none or when the segment starts with it
PathExtname(p) ==
    LET q == StripTrailing(p)
        base == SubSeq(q, LastSlash(q, Len(q)) + 1, Len(q))
        i == LastDot(base, Len(base))
    IN  IF i <= 1 THEN <<>> ELSE SubSeq(base, i, Len(base))

----------------------------------------------------------------------------
(* The workspace store: RealFileSystem over a posix disk                   *)

\* WORKSPACE_ROOT, shortened from /tmp/online-editor to one segment
Root == <<"/", "w">>

FilePrefix == <<"f", "i", "l", "e", ":", "/", "/">>

\* undefined, as a FileEntry no file has (a version is at least 1)
NoFile == [uri |-> <<>>, content |-> "", version |-> 0, languageId |-> ""]

RECURSIVE StripLeadingSlashes(_)
\* rawPath.replace(/^[/\\]+/, '')
StripLeadingSlashes(s) ==
    IF s # <<>> /\ (Head(s) = Slash \/ Head(s) = "\\") THEN StripLeadingSlashes(Tail(s))
    ELSE s

\* p.replace(/^\//, ''): one leading separator at most
StripOneSlash(s) == IF s # <<>> /\ Head(s) = Slash THEN Tail(s) ELSE s

RECURSIVE FirstSlash(_, _)
FirstSlash(s, i) ==
    IF i > Len(s) THEN 0 ELSE IF s[i] = Slash THEN i ELSE FirstSlash(s, i + 1)

RECURSIVE UrlSegs(_, _)
\* the path state of the URL parser: ".." shortens the path (never above
\* its root), "." is dropped, and either one as last segment leaves a
\* trailing separator
UrlSegs(segs, res) ==
    IF segs = <<>> THEN res
    ELSE LET s == Head(segs)
             last == Len(segs) = 1
             popped == IF res = <<>> THEN res ELSE SubSeq(res, 1, Len(res) - 1)
         IN  IF s = DotDot
             THEN UrlSegs(Tail(segs), IF last THEN Append(popped, <<>>) ELSE popped)
             ELSE IF s = Dot
                  THEN UrlSegs(Tail(segs), IF last THEN Append(res, <<>>) ELSE res)
                  ELSE UrlSegs(Tail(segs), Append(res, s))

\* new URL("file://" + rest).pathname
UrlPathname(rest) ==
    LET i == FirstSlash(rest, 1)
        path == IF i = 0 THEN <<Slash>> ELSE SubSeq(rest, i, Len(rest))
    IN  <<Slash>> \o JoinSegs(UrlSegs(Tail(Split(path)), <<>>))

\* new URL(uri) throws for a string without a scheme; the only scheme of the
\* model's alphabet is file:
extractPathFromUri(uri) ==
    IF StartsWith(uri, FilePrefix)
    THEN UrlPathname(SubSeq(uri, Len(FilePrefix) + 1, Len(uri)))
    ELSE uri

normalizePath(rawPath) == PathNormalize(StripLeadingSlashes(rawPath))

uriToPath(uri) == PathJoin(Root, normalizePath(extractPathFromUri(uri)))

pathToUri(filePath) ==
    IF StartsWith(filePath, Root)
    THEN FilePrefix \o <<Slash>> \o PathRelative(Root, filePath)
    ELSE FilePrefix \o <<Slash>> \o filePath

inferLanguageId(uri) ==
    LET ext == PathExtname(uri)
    IN  IF ext = <<".", "g", "o">> THEN "go"
        ELSE IF ext \in {<<".", "t", "s">>, <<".", "t", "s", "x">>} THEN "typescript"
        ELSE IF ext \in {<<".", "j", "s">>, <<".", "j", "s", "x">>} THEN "javascript"
        ELSE "plaintext"

\* the security check of createDirectory, deletePath, renamePath and
\* readFileContent: resolvedPath.startsWith(resolvedWorkspace)
withinWorkspace(resolvedPath) == StartsWith(resolvedPath, PathResolve(Root))

\* what the check is meant to decide: the path is the root or lies below it
InsideRoot(p) == p = Root \/ StartsWith(p, Root \o <<Slash>>)

(* --- the disk --- *)

\* the path and every directory above it
Ancestors(p) ==
    LET segs == NormSegs(Split(p), <<>>, FALSE)
    IN  { <<Slash>> \o JoinSegs(SubSeq(segs, 1, k)) : k \in 0..Len(segs) }

IsFile(p) == p \in DOMAIN files
IsDir(p) == p \in dirs
Exists(p) == IsFile(p) \/ IsDir(p)

\* fs.mkdir(p, {recursive: true}) succeeds unless a regular file is in the way
CanMkdir(p) == \A a \in Ancestors(p) : ~IsFile(a)

\* fs.writeFile(p) needs the directory of p and no directory at p
CanWrite(ds, p) == PathDirname(p) \in ds /\ p \notin ds /\ p[Len(p)] # Slash

Below(p, d) == p = d \/ StartsWith(p, d \o <<Slash>>)

Put(f, k, v) == [x \in (DOMAIN f) \cup {k} |-> IF x = k THEN v ELSE f[x]]
Drop(f, k) == [x \in (DOMAIN f) \ {k} |-> f[x]]

Last(op, outcome, resolved, touched) ==
    [op |-> op, outcome |-> outcome, resolved |-> resolved, touched |-> touched]

storeMaps == <<fileVersions, fileLanguages>>

createFile(uri, content, languageId) ==
    LET filePath == uriToPath(uri)
        dir == PathDirname(filePath)
        made == dirs \cup Ancestors(dir)
    IN  IF ~CanMkdir(dir)
        THEN /\ fsLast' = Last("createFile", "error", <<filePath>>, {dir})
             /\ UNCHANGED <<files, dirs, storeMaps>>
        ELSE IF ~CanWrite(made, filePath)
        THEN /\ dirs' = made
             /\ fsLast' = Last("createFile", "error", <<filePath>>, {dir, filePath})
             /\ UNCHANGED <<files, storeMaps>>
        ELSE /\ dirs' = made
             /\ files' = Put(files, filePath, content)
             /\ fileVersions' = Put(fileVersions, uri, 1)
             /\ fileLanguages' = Put(fileLanguages, uri, languageId)
             /\ fsLast' = Last("createFile", "ok", <<filePath>>, {dir, filePath})

updateFile(uri, content) ==
    LET filePath == uriToPath(uri)
        currentVersion == IF uri \in DOMAIN fileVersions THEN fileVersions[uri] ELSE 0
    IN  IF ~CanWrite(dirs, filePath)
        THEN /\ fsLast' = Last("updateFile", "error", <<filePath>>, {filePath})
             /\ UNCHANGED <<files, dirs, storeMaps>>
        ELSE /\ files' = Put(files, filePath, content)
             /\ fileVersions' = Put(fileVersions, uri, currentVersion + 1)
             /\ fsLast' = Last("updateFile", "ok", <<filePath>>, {filePath})
             /\ UNCHANGED <<dirs, fileLanguages>>

\* the FileEntry getFile resolves to over the disk fs and the tracking maps
\* vs and ls, NoFile for undefined
FileEntryOf(fs, vs, ls, uri) ==
    LET filePath == uriToPath(uri)
    IN  IF filePath \in DOMAIN fs
        THEN [uri |-> uri,
              content |-> fs[filePath],
              version |-> IF uri \in DOMAIN vs THEN vs[uri] ELSE 1,
              languageId |-> IF uri \in DOMAIN ls /\ ls[uri] # "" THEN ls[uri]
                             ELSE inferLanguageId(uri)]
        ELSE NoFile

\* the FileEntry getFile resolves to now
FileEntry(uri) == FileEntryOf(files, fileVersions, fileLanguages, uri)

\* the FileEntry getFile resolves to once the step is taken
FileEntryAfter(uri) == FileEntryOf(files', fileVersions', fileLanguages', uri)

getFile(uri) ==
    /\ fsLast' = Last("getFile", IF FileEntry(uri) = NoFile THEN "undefined" ELSE "ok",
                      <<uriToPath(uri)>>, {uriToPath(uri)})
    /\ UNCHANGED <<files, dirs, storeMaps>>

deleteFile(uri) ==
    LET filePath == uriToPath(uri)
    IN  IF IsFile(filePath)
        THEN /\ files' = Drop(files, filePath)
             /\ fileVersions' = Drop(fileVersions, uri)
             /\ fileLanguages' = Drop(fileLanguages, uri)
             /\ fsLast' = Last("deleteFile", "ok", <<filePath>>, {filePath})
             /\ UNCHANGED dirs
        ELSE /\ fsLast' = Last("deleteFile", "ignored", <<filePath>>, {filePath})
             /\ UNCHANGED <<files, dirs, storeMaps>>

hasFile(uri) ==
    /\ fsLast' = Last("hasFile", IF Exists(uriToPath(uri)) THEN "true" ELSE "false",
                      <<uriToPath(uri)>>, {uriToPath(uri)})
    /\ UNCHANGED <<files, dirs, storeMaps>>

createDirectory(dirPath) ==
    LET fullPath == PathJoin(Root, StripOneSlash(dirPath))
        resolvedPath == PathResolve(fullPath)
    IN  IF ~withinWorkspace(resolvedPath)
        THEN /\ fsLast' = Last("createDirectory", "denied", <<resolvedPath>>, {})
             /\ UNCHANGED <<files, dirs, storeMaps>>
        ELSE IF ~CanMkdir(resolvedPath)
        THEN /\ fsLast' = Last("createDirectory", "error", <<resolvedPath>>, {resolvedPath})
             /\ UNCHANGED <<files, dirs, storeMaps>>
        ELSE /\ dirs' = dirs \cup Ancestors(resolvedPath)
             /\ fsLast' = Last("createDirectory", "ok", <<resolvedPath>>, {resolvedPath})
             /\ UNCHANGED <<files, storeMaps>>

deletePath(targetPath) ==
    LET fullPath == PathJoin(Root, StripOneSlash(targetPath))
        resolvedPath == PathResolve(fullPath)
        uri == pathToUri(resolvedPath)
    IN  IF ~withinWorkspace(resolvedPath)
        THEN /\ fsLast' = Last("deletePath", "denied", <<resolvedPath>>, {})
             /\ UNCHANGED <<files, dirs, storeMaps>>
        ELSE IF IsDir(resolvedPath)
        THEN \* fs.rm(resolvedPath, {recursive: true, force: true})
             /\ dirs' = {d \in dirs : ~Below(d, resolvedPath)}
             /\ files' = [f \in {x \in DOMAIN files : ~Below(x, resolvedPath)} |-> files[f]]
             /\ fsLast' = Last("deletePath", "ok", <<resolvedPath>>, {resolvedPath})
             /\ UNCHANGED storeMaps
        ELSE IF IsFile(resolvedPath)
        THEN /\ files' = Drop(files, resolvedPath)
             /\ fileVersions' = Drop(fileVersions, uri)
             /\ fileLanguages' = Drop(fileLanguages, uri)
             /\ fsLast' = Last("deletePath", "ok", <<resolvedPath>>, {resolvedPath})
             /\ UNCHANGED dirs
        ELSE /\ fsLast' = Last("deletePath", "error", <<resolvedPath>>, {resolvedPath})
             /\ UNCHANGED <<files, dirs, storeMaps>>

\* p moved with the directory old to new
Reroot(p, old, new) == new \o SubSeq(p, Len(old) + 1, Len(p))

\* fs.rename(old, new) on the disk (ds, files): a file replaces a file, a
\* directory moves with what is below it to a free place outside itself
CanRename(ds, old, new) ==
    /\ PathDirname(new) \in ds
    /\ \/ IsFile(old) /\ new \notin ds
       \/ /\ old \in ds
          /\ ~IsFile(new)
          /\ ~Below(new, old)
          /\ \A x \in ds \cup DOMAIN files : x = new \/ ~Below(x, new)

renamePath(oldPath, newPath) ==
    LET oldFullPath == PathJoin(Root, StripOneSlash(oldPath))
        newFullPath == PathJoin(Root, StripOneSlash(newPath))
        resolvedOldPath == PathResolve(oldFullPath)
        resolvedNewPath == PathResolve(newFullPath)
        newDir == PathDirname(newFullPath)
        made == dirs \cup Ancestors(newDir)
        oldUri == pathToUri(resolvedOldPath)
        newUri == pathToUri(resolvedNewPath)
        both == <<resolvedOldPath, resolvedNewPath>>
    IN  IF ~withinWorkspace(resolvedOldPath) \/ ~withinWorkspace(resolvedNewPath)
        THEN /\ fsLast' = Last("renamePath", "denied", both, {})
             /\ UNCHANGED <<files, dirs, storeMaps>>
        ELSE IF ~CanMkdir(newDir)
        THEN /\ fsLast' = Last("renamePath", "error", both, {newDir})
             /\ UNCHANGED <<files, dirs, storeMaps>>
        ELSE IF ~CanRename(made, resolvedOldPath, resolvedNewPath)
        THEN /\ dirs' = made
             /\ fsLast' = Last("renamePath", "error", both,
                               {newDir, resolvedOldPath, resolvedNewPath})
             /\ UNCHANGED <<files, storeMaps>>
        ELSE /\ IF IsFile(resolvedOldPath)
                THEN /\ files' = Put(Drop(files, resolvedOldPath), resolvedNewPath,
                                     files[resolvedOldPath])
                     /\ dirs' = made
                ELSE /\ files' = [f \in {IF Below(x, resolvedOldPath)
                                         THEN Reroot(x, resolvedOldPath, resolvedNewPath)
                                         ELSE x : x \in DOMAIN files} |->
                                  LET src == CHOOSE x \in DOMAIN files :
                                               f = IF Below(x, resolvedOldPath)
                                                   THEN Reroot(x, resolvedOldPath, resolvedNewPath)
                                                   ELSE x
                                  IN  files[src]]
                     /\ dirs' = {IF Below(d, resolvedOldPath)
                                 THEN Reroot(d, resolvedOldPath, resolvedNewPath)
                                 ELSE d : d \in made}
             /\ IF oldUri \in DOMAIN fileVersions
                THEN /\ fileVersions' = Put(Drop(fileVersions, oldUri), newUri,
                                            fileVersions[oldUri])
                     /\ fileLanguages' =
                            IF oldUri \in DOMAIN fileLanguages
                            THEN Put(Drop(fileLanguages, oldUri), newUri, fileLanguages[oldUri])
                            ELSE fileLanguages
                ELSE UNCHANGED storeMaps
             /\ fsLast' = Last("renamePath", "ok", both,
                               {newDir, resolvedOldPath, resolvedNewPath})

readFileContent(filePath) ==
    LET fullPath == PathJoin(Root, StripOneSlash(filePath))
        resolvedPath == PathResolve(fullPath)
    IN  /\ fsLast' = IF ~withinWorkspace(resolvedPath)
                     THEN Last("readFileContent", "denied", <<resolvedPath>>, {})
                     ELSE Last("readFileContent",
                               IF IsFile(resolvedPath) THEN "ok" ELSE "error",
                               <<resolvedPath>>, {resolvedPath})
        /\ UNCHANGED <<files, dirs, storeMaps>>

\* listFileTree reads basePath and, recursively, every directory below it
\* whose name (and the name of every directory on the way) starts without "."
Hidden(p, base) ==
    \E seg \in {NormSegs(Split(p), <<>>, FALSE)[k] :
                    k \in (Len(NormSegs(Split(base), <<>>, FALSE)) + 1)
                          ..Len(NormSegs(Split(p), <<>>, FALSE))} : Head(seg) = "."

listFileTree(relativePath) ==
    LET basePath == IF relativePath = <<Slash>> THEN Root ELSE PathJoin(Root, relativePath)
        base == PathResolve(basePath)
    IN  /\ fsLast' = IF IsDir(base)
                     THEN Last("listFileTree", "ok", <<base>>,
                               {d \in dirs : Below(d, base) /\ ~Hidden(d, base)})
                     ELSE Last("listFileTree", "empty", <<base>>, {base})
        /\ UNCHANGED <<files, dirs, storeMaps>>

clear ==
    /\ fileVersions' = <<>>
    /\ fileLanguages' = <<>>
    /\ fsLast' = Last("clear", "ok", <<>>, {})
    /\ UNCHANGED <<files, dirs>>

getFileCount == Cardinality(DOMAIN fileVersions)

----------------------------------------------------------------------------
(* The store called directly (the HTTP endpoints of index.ts, the unit     *)
(* tests): one action per operation of RealFileSystem                      *)

MaxFsOps == 2

NameA == <<"a", ".", "t", "s">>
UpDir == <<".", ".", Slash>>

\* paths as a caller may write them: plain, with a leading separator,
\* nested, with ".." inside the root, with ".." leaving the root, and
\* leaving the root for a sibling whose name starts with the root's name
PathInputs ==
    { NameA,
      <<Slash>> \o NameA,
      <<"d">>,
      <<"d", Slash>> \o NameA,
      <<"d", Slash>> \o UpDir \o NameA,
      UpDir \o NameA,
      UpDir \o <<"w", "x">> }

\* document URIs: the same, and the file:/// form of the wire protocol
UriInputs ==
    (PathInputs \ {<<"d">>})
    \cup { FilePrefix \o <<Slash>> \o NameA,
           FilePrefix \o <<Slash, "d", Slash>> \o NameA,
           FilePrefix \o <<Slash, "d", Slash>> \o UpDir \o NameA,
           FilePrefix \o <<Slash>> \o UpDir \o NameA }

Contents == {"t1", "t2"}
\* the languageIds a caller may give, the empty string among them
LanguageIds == {"typescript", "go", ""}

\* the languages a caller may name: the configured ones and one without a config
ManagedLangs == {"typescript", "go"}
Langs == ManagedLangs \cup {"plaintext"}

NoNotification ==
    [client |-> 0, to |-> "", obtainedBy |-> "", method |-> "", open |-> FALSE,
     written |-> FALSE, doc |-> <<>>, uri |-> <<>>]

\* new RealFileSystem(WORKSPACE_ROOT) over a workspace with nothing in it
InitStore ==
    /\ files = <<>>
    /\ dirs = Ancestors(Root)
    /\ fileVersions = <<>>
    /\ fileLanguages = <<>>
    /\ fsLast = Last("new", "ok", <<>>, {})
    /\ fsOps = 0

\* new LanguageServerManager(WORKSPACE_ROOT)
InitManager ==
    /\ clients = [l \in Langs |-> 0]
    /\ startingClients = [l \in Langs |-> 0]
    /\ lc = <<>>
    /\ starts = <<>>
    /\ calls = <<>>
    /\ nCalls = 0
    /\ returned = <<>>
    /\ stops = EmptyBag
    /\ stopAllState = "none"
    /\ notified = NoNotification

\* the client ids generateClientId hands out; one connection is followed, whose
\* tasks go on after it has closed
ClientIds == {"c1"}

\* the transport listening, no client connected yet
InitProxy ==
    /\ wsClients = [c \in ClientIds |-> "new"]
    /\ clientProxies = [c \in ClientIds |-> 0]
    /\ proxies = <<>>
    /\ tasks = <<>>
    /\ observed = <<>>
    /\ sent = <<>>
    /\ nMsgs = 0
    /\ proc = [pc |-> "running", timer |-> FALSE, inflight |-> {}]

\* new WebSocketTransport(wsUrl) in the browser: no socket, no attempt made,
\* no timer; sockets and timers are every WebSocket constructed and every
\* timer set by the transport, disposed says whether dispose() was called
InitTransport ==
    transport = [socket |-> 0, reconnectAttempts |-> 0, reconnectTimer |-> 0,
                 sockets |-> <<>>, timers |-> <<>>, disposed |-> FALSE]

Init == InitStore /\ InitManager /\ InitProxy /\ InitTransport

Called == fsOps < MaxFsOps /\ fsOps' = fsOps + 1 /\ UNCHANGED <<mgrVars, proxyVars>>

FsCreateFile ==
    /\ Called
    /\ \E uri \in UriInputs, content \in Contents, languageId \in LanguageIds :
           createFile(uri, content, languageId)

FsUpdateFile ==
    /\ Called
    /\ \E uri \in UriInputs, content \in Contents : updateFile(uri, content)

FsGetFile == Called /\ \E uri \in UriInputs : getFile(uri)

FsDeleteFile == Called /\ \E uri \in UriInputs : deleteFile(uri)

FsHasFile == Called /\ \E uri \in UriInputs : hasFile(uri)

FsCreateDirectory == Called /\ \E dirPath \in PathInputs : createDirectory(dirPath)

FsDeletePath == Called /\ \E targetPath \in PathInputs : deletePath(targetPath)

FsRenamePath ==
    Called /\ \E oldPath \in PathInputs, newPath \in PathInputs : renamePath(oldPath, newPath)

FsReadFileContent == Called /\ \E filePath \in PathInputs : readFileContent(filePath)

FsListFileTree ==
    Called /\ \E relativePath \in PathInputs \cup {<<Slash>>} : listFileTree(relativePath)

FsClear == Called /\ clear

NextFs ==
    \/ FsCreateFile
    \/ FsUpdateFile
    \/ FsGetFile
    \/ FsDeleteFile
    \/ FsHasFile
    \/ FsCreateDirectory
    \/ FsDeletePath
    \/ FsRenamePath
    \/ FsReadFileContent
    \/ FsListFileTree
    \/ FsClear

SpecFs == Init /\ [][NextFs]_vars

(***************************************************************************)
(* Properties of the store, checked under SpecFs.                          *)
(***************************************************************************)
Rng(t) == {t[i] : i \in DOMAIN t}

\* C7: whatever path or URI a store operation is given, every absolute path
\* it resolves and every path it touches is the workspace root or below it,
\* or else the operation is refused before it touches anything.
C7_PathSafety ==
    \/ \A p \in Rng(fsLast.resolved) \cup fsLast.touched : InsideRoot(p)
    \/ fsLast.outcome = "denied" /\ fsLast.touched = {}

\* C8: a renamePath whose source or destination resolves outside the
\* workspace root is refused with the security error and changes nothing:
\* no directory made, no file moved, no tracked version or languageId changed.
C8_RenameOutsideRefused ==
    [][ ( /\ fsOps' # fsOps
          /\ fsLast'.op = "renamePath"
          /\ \E p \in Rng(fsLast'.resolved) : ~InsideRoot(p) )
        => ( /\ fsLast'.outcome = "denied"
             /\ UNCHANGED <<files, dirs, fileVersions, fileLanguages>> ) ]_vars

\* a direct call of the store that ran updateFile(uri, content)
UpdateCalled(uri, content) ==
    fsOps' # fsOps /\ fsLast'.op = "updateFile" /\ updateFile(uri, content)

\* a direct call of the store that ran createFile(uri, content, languageId)
CreateCalled(uri, content, languageId) ==
    fsOps' # fsOps /\ fsLast'.op = "createFile" /\ createFile(uri, content, languageId)

\* C11: for an existing file u that a read reports as (t, v, l), tracked or
\* not, a read after updateFile(u, t2) returns (t2, v + 1, l): the content
\* replaced, the version one higher, the languageId kept.
C11_UpdateIncrementsVersion ==
    [][ \A uri \in UriInputs, content \in Contents :
          (UpdateCalled(uri, content) /\ FileEntry(uri) # NoFile)
          => FileEntryAfter(uri) = [uri |-> uri,
                                content |-> content,
                                version |-> FileEntry(uri).version + 1,
                                languageId |-> FileEntry(uri).languageId] ]_vars

\* C12: for a URI u inside the root, a text t and a languageId l,
\* createFile(u, t, l) followed by a read of u returns exactly (t, 1, l),
\* whatever was stored or tracked for u before.
C12_CreateThenRead ==
    [][ \A uri \in UriInputs, content \in Contents, languageId \in LanguageIds :
          (CreateCalled(uri, content, languageId) /\ InsideRoot(uriToPath(uri)))
          => FileEntryAfter(uri) = [uri |-> uri, content |-> content, version |-> 1,
                                languageId |-> languageId] ]_vars

\* the uri is file:/// followed by a path that, taken from the workspace
\* root, stays inside it
PointsInside(uri) ==
    /\ StartsWith(uri, FilePrefix \o <<Slash>>)
    /\ InsideRoot(PathJoin(Root, SubSeq(uri, Len(FilePrefix) + 2, Len(uri))))

\* C25: the path a store operation resolves a file:/// uri inside the root
\* to is turned back by pathToUri into that uri, with forward slashes only.
C25_UriRoundTrip ==
    [][\A uri \in UriInputs :
          ( /\ fsOps' # fsOps
            /\ fsLast'.op = "getFile"
            /\ PointsInside(uri)
            /\ getFile(uri) )
              => /\ pathToUri(fsLast'.resolved[1]) = uri
                 /\ "\\" \notin Rng(pathToUri(fsLast'.resolved[1]))]_vars

\* C26: a successful renamePath of a tracked file to another path leaves
\* its version and languageId tracked under the uri of the new path and no
\* longer under the key they were tracked under, whichever form that key
\* has, and the number of tracked files is as before.
C26_RenameTransfersMetadata ==
    [][\A oldPath, newPath \in PathInputs :
          LET old == PathResolve(PathJoin(Root, StripOneSlash(oldPath)))
              new == PathResolve(PathJoin(Root, StripOneSlash(newPath)))
          IN  ( /\ fsOps' # fsOps
                /\ fsLast'.op = "renamePath" /\ fsLast'.outcome = "ok"
                /\ old # new /\ IsFile(old)
                /\ renamePath(oldPath, newPath) )
                  => \A u \in DOMAIN fileVersions :
                         uriToPath(u) = old
                             => /\ u \notin DOMAIN fileVersions'
                                /\ pathToUri(new) \in DOMAIN fileVersions'
                                /\ fileVersions'[pathToUri(new)] = fileVersions[u]
                                /\ pathToUri(new) \in DOMAIN fileLanguages'
                                /\ fileLanguages'[pathToUri(new)] = fileLanguages[u]
                                /\ Cardinality(DOMAIN fileVersions')
                                       = Cardinality(DOMAIN fileVersions)]_vars

\* C40: the uris with a tracked version are the uris with a tracked
\* languageId, and getFileCount is their number.
C40_TrackingMapsAgree ==
    /\ DOMAIN fileVersions = DOMAIN fileLanguages
    /\ getFileCount = Cardinality(DOMAIN fileLanguages)

(***************************************************************************)
(* LanguageServerManager (lsp/manager.ts).  A LanguageClient with its      *)
(* ServerHost and its ClientInfo is one record of lc; its index is the     *)
(* client reference.  state: "starting" (start() pending), "running",      *)
(* "failed" (start() rejected), "stopping" (stop() pending), "stopped".    *)
(* wsConnection is the connection held by host.window; idleTimer says      *)
(* whether the timer of the ClientInfo is armed; obtainedBy is the         *)
(* connection of the latest caller that was handed this client.            *)
(***************************************************************************)
MaxCalls == 3       \* getOrCreateClient calls
MaxClients == 5     \* LanguageClient constructions
maxRetries == 3     \* manager.ts: const maxRetries = 3

\* the connections of the sessions that call the manager
Conns == {"wsA", "wsB"}

\* a manager that finds a config for whatever language it is asked for
HasConfigAny(languageId) == TRUE

\* this.configs.find(c => c.languageId === languageId)
HasConfig(languageId) == languageId \in ManagedLangs

\* a manager that never finds a start in flight
startingPromiseNone(languageId) == 0

\* this.startingClients.get(languageId)
startingPromise(languageId) == startingClients[languageId]

\* a start of languageId that has not settled, whatever the maps say
InFlight(languageId) ==
    IF \E s \in DOMAIN starts :
           starts[s].languageId = languageId /\ starts[s].state \in {"starting", "retrying"}
    THEN CHOOSE s \in DOMAIN starts :
           starts[s].languageId = languageId /\ starts[s].state \in {"starting", "retrying"}
    ELSE 0

\* a window that keeps the connection it was constructed with
setConnectionKept(window, wsConnection) == window

\* ServerWindow.setConnection(wsConnection, mapUri): the window writes to the
\* connection given from now on
setConnection(window, wsConnection) == wsConnection

\* an analyzer process exists from start() until stop() has completed
Alive(c) == lc[c].state \in {"starting", "running", "stopping"}

NewClient(languageId, wsConnection) ==
    [languageId |-> languageId, state |-> "starting", wsConnection |-> wsConnection,
     idleTimer |-> FALSE, obtainedBy |-> ""]

\* a call: who calls for what, the start it awaits (0: none), the start that
\* was in flight when it was made, and whether it constructed a client
Call(languageId, conn, start, constructed) ==
    [languageId |-> languageId, conn |-> conn, start |-> start,
     inflight |-> InFlight(languageId), constructed |-> constructed]

\* a completed call: status "returned" with the client, or "threw"
Completed(call, result, status) ==
    [languageId |-> call.languageId, conn |-> call.conn, start |-> call.start,
     inflight |-> call.inflight, constructed |-> call.constructed,
     result |-> result, status |-> status]


\* the last element of the set of indices S, 0 if there is none
MaxOf(S) == IF S = {} THEN 0 ELSE CHOOSE i \in S : \A j \in S : j <= i

\* getOrCreateClient(languageId, {wsConnection: conn}) up to its first await
getOrCreateClient(languageId, conn) ==
    LET c == clients[languageId]
        s == startingPromise(languageId)
    IN  IF c # 0 THEN
            /\ lc' = [lc EXCEPT ![c].idleTimer = TRUE,
                                 ![c].wsConnection = setConnection(@, conn),
                                 ![c].obtainedBy = conn]
            /\ returned' = <<Completed(Call(languageId, conn, 0, FALSE), c, "returned")>>
            /\ UNCHANGED <<clients, startingClients, starts, calls>>
        ELSE IF s # 0 THEN
            /\ calls' = Append(calls, Call(languageId, conn, s, FALSE))
            /\ returned' = <<>>
            /\ UNCHANGED <<clients, startingClients, starts, lc>>
        ELSE IF ~HasConfig(languageId) THEN
            /\ returned' = <<Completed(Call(languageId, conn, 0, FALSE), 0, "threw")>>
            /\ UNCHANGED <<clients, startingClients, starts, lc, calls>>
        ELSE
            /\ Len(lc) < MaxClients
            /\ lc' = Append(lc, NewClient(languageId, conn))
            /\ starts' = Append(starts, [languageId |-> languageId, conn |-> conn,
                                          client |-> Len(lc) + 1, retryCount |-> 0,
                                          state |-> "starting"])
            /\ startingClients' = [startingClients EXCEPT ![languageId] = Len(starts) + 1]
            /\ calls' = Append(calls, Call(languageId, conn, Len(starts) + 1, TRUE))
            /\ returned' = <<>>
            /\ UNCHANGED clients

\* every caller awaiting start s is handed the outcome: the initiator, then
\* those that were returned the same promise, in call order
Waiting(s) == {i \in DOMAIN calls : calls[i].start = s}

Settle(s, result, status) ==
    LET awaits(call) == call.start = s
        others(call) == call.start # s
        done == SelectSeq(calls, awaits)
    IN  /\ calls' = SelectSeq(calls, others)
        /\ returned' = [i \in DOMAIN done |-> Completed(done[i], result, status)]

\* stopClient(languageId) up to its await of client.stop(); its callers are the
\* idle timers and stopAll ("by" says which)
stopClient(languageId, by, clientsNow, lcNow, stopsNow) ==
    LET c == clientsNow[languageId]
    IN  IF c = 0
        THEN [lc |-> lcNow, stops |-> stopsNow]
        ELSE [lc |-> [lcNow EXCEPT ![c].idleTimer = FALSE,
                                   ![c].state = IF @ = "running" THEN "stopping" ELSE @],
              stops |-> stopsNow (+) SetToBag({[client |-> c, languageId |-> languageId,
                                                by |-> by]})]

RECURSIVE stopEach(_, _, _)
\* Array.from(this.clients.keys()).map(id => this.stopClient(id))
stopEach(ids, lcNow, stopsNow) ==
    IF ids = {} THEN [lc |-> lcNow, stops |-> stopsNow]
    ELSE LET id == CHOOSE l \in ids : TRUE
             r == stopClient(id, "stopAll", clients, lcNow, stopsNow)
         IN  stopEach(ids \ {id}, r.lc, r.stops)

MgrCalled == UNCHANGED <<fsVars, proxyVars>>

\* a step that completes no call and emits no notification
Quiet == returned' = <<>> /\ notified' = NoNotification

\* a session asks for the analyzer of a language, passing its connection
GetOrCreateClient ==
    /\ nCalls < MaxCalls
    /\ nCalls' = nCalls + 1
    /\ \E languageId \in Langs, conn \in Conns : getOrCreateClient(languageId, conn)
    /\ notified' = NoNotification
    /\ UNCHANGED <<stops, stopAllState>>
    /\ MgrCalled

\* await client.start() resolves: the rest of the try block, the return, the
\* finally of the initiator, and the continuations of everyone awaiting
StartSucceeds ==
    \E s \in DOMAIN starts :
        LET c == starts[s].client
            languageId == starts[s].languageId
            last == MaxOf(Waiting(s))
        IN  /\ starts[s].state = "starting"
            /\ lc' = [lc EXCEPT ![c].state = "running", ![c].idleTimer = TRUE,
                                 ![c].obtainedBy = IF last = 0 THEN @ ELSE calls[last].conn]
            /\ clients' = [clients EXCEPT ![languageId] = c]
            /\ starts' = [starts EXCEPT ![s].state = "resolved"]
            /\ startingClients' = [startingClients EXCEPT ![languageId] = 0]
            /\ Settle(s, c, "returned")
            /\ notified' = NoNotification
            /\ UNCHANGED <<nCalls, stops, stopAllState>>
            /\ MgrCalled

\* await client.start() rejects: the catch block
StartFails ==
    \E s \in DOMAIN starts :
        LET c == starts[s].client
            languageId == starts[s].languageId
            retryCount == starts[s].retryCount + 1
        IN  /\ starts[s].state = "starting"
            /\ lc' = [lc EXCEPT ![c].state = "failed"]
            /\ IF retryCount <= maxRetries
               THEN /\ starts' = [starts EXCEPT ![s].retryCount = retryCount,
                                                 ![s].state = "retrying"]
                    /\ returned' = <<>>
                    /\ UNCHANGED <<startingClients, calls>>
               ELSE /\ starts' = [starts EXCEPT ![s].retryCount = retryCount,
                                                 ![s].state = "rejected"]
                    /\ startingClients' = [startingClients EXCEPT ![languageId] = 0]
                    /\ Settle(s, 0, "threw")
            /\ notified' = NoNotification
            /\ UNCHANGED <<clients, nCalls, stops, stopAllState>>
            /\ MgrCalled

\* the one-second wait is over: the next turn of the while loop
RetryStart ==
    \E s \in DOMAIN starts :
        /\ starts[s].state = "retrying"
        /\ Len(lc) < MaxClients
        /\ lc' = Append(lc, NewClient(starts[s].languageId, starts[s].conn))
        /\ starts' = [starts EXCEPT ![s].client = Len(lc) + 1, ![s].state = "starting"]
        /\ Quiet
        /\ UNCHANGED <<clients, startingClients, calls, nCalls, stops, stopAllState>>
        /\ MgrCalled

\* the idle timer of a ClientInfo expires: () => this.stopClient(languageId)
IdleTimerFires ==
    \E c \in DOMAIN lc :
        LET r == stopClient(lc[c].languageId, "timer", clients,
                            [lc EXCEPT ![c].idleTimer = FALSE], stops)
        IN  /\ lc[c].idleTimer
            /\ lc' = r.lc
            /\ stops' = r.stops
            /\ Quiet
            /\ UNCHANGED <<clients, startingClients, starts, calls, nCalls, stopAllState>>
            /\ MgrCalled

\* stopAll() up to its await of Promise.all
StopAll ==
    LET r == stopEach({l \in Langs : clients[l] # 0}, lc, stops)
    IN  /\ stopAllState = "none"
        /\ lc' = r.lc
        /\ stops' = r.stops
        /\ stopAllState' = IF r.stops = stops THEN "resolved" ELSE "pending"
        /\ Quiet
        /\ UNCHANGED <<clients, startingClients, starts, calls, nCalls>>
        /\ MgrCalled

\* await clientInfo.client.stop() settles in one stopClient invocation: the
\* entry of the language is deleted on both paths
StopReturns ==
    \E k \in BagToSet(stops) :
        LET rest == stops (-) SetToBag({k})
        IN  /\ clients' = [clients EXCEPT ![k.languageId] = 0]
            /\ lc' = [lc EXCEPT ![k.client].state = "stopped"]
            /\ stops' = rest
            /\ stopAllState' =
                   IF stopAllState = "pending"
                      /\ \A j \in BagToSet(rest) : j.by # "stopAll"
                   THEN "resolved" ELSE stopAllState
            /\ Quiet
            /\ UNCHANGED <<startingClients, starts, calls, nCalls>>
            /\ MgrCalled

\* the notifications of an analyzer that ServerWindow has a method for
PublishDiagnostics == "textDocument/publishDiagnostics"
AnalyzerNotifications == {"window/showMessage", "window/logMessage", PublishDiagnostics}

\* this.mapUri ? this.mapUri(uri) : uri, in a window that has no mapUri: no
\* caller of getOrCreateClient passes one
targetUri(uri) == uri

\* whether ServerWindow writes the notification to its connection:
\* logMessage only logs to the console, the others write to an open socket
Written(method, open) == method # "window/logMessage" /\ open

\* a running analyzer emits a notification, diagnostics being about a
\* document under the uri the analyzer was given for it: host.window handles
\* it with the connection it holds, whose socket is open or not
Notify ==
    \E c \in DOMAIN lc, method \in AnalyzerNotifications, open \in BOOLEAN :
        /\ lc[c].state = "running"
        /\ LET doc == IF method = PublishDiagnostics
                      THEN FilePrefix \o <<Slash>> \o NameA ELSE <<>>
           IN  notified' = [client |-> c, to |-> lc[c].wsConnection,
                            obtainedBy |-> lc[c].obtainedBy,
                            method |-> method, open |-> open,
                            written |-> Written(method, open), doc |-> doc,
                            uri |-> IF method = PublishDiagnostics
                                    THEN targetUri(FilePrefix \o uriToPath(doc))
                                    ELSE <<>>]
        /\ returned' = <<>>
        /\ UNCHANGED <<clients, startingClients, lc, starts, calls, nCalls, stops,
                       stopAllState>>
        /\ MgrCalled

\* the process of a running analyzer exits unexpectedly: nothing in the
\* manager listens for it, the ClientInfo and its idle timer stay as they are
Crash ==
    \E c \in DOMAIN lc :
        /\ lc[c].state = "running"
        /\ lc' = [lc EXCEPT ![c].state = "crashed"]
        /\ Quiet
        /\ UNCHANGED <<clients, startingClients, starts, calls, nCalls, stops,
                       stopAllState>>
        /\ MgrCalled

NextMgr ==
    \/ GetOrCreateClient
    \/ StartSucceeds
    \/ StartFails
    \/ RetryStart
    \/ IdleTimerFires
    \/ StopAll
    \/ StopReturns
    \/ Notify
    \/ Crash

SpecMgr == Init /\ [][NextMgr]_vars

\* the timers of node fire once they have expired, and client.stop() settles
SpecMgrFair == SpecMgr /\ WF_vars(IdleTimerFires) /\ WF_vars(StopReturns)

(***************************************************************************)
(* The shutdown of the process (index.ts): proc.pc is "running", "stopping" *)
(* (awaiting stopAll), "closing" (server.close called, the timer armed),    *)
(* "exit0" or "exit1"; proc.inflight keeps the starts that were in flight   *)
(* when the handler called stopAll.                                         *)
(***************************************************************************)
\* process.on('SIGINT'), which SIGTERM re-emits: the handler up to its await
\* of lsManager.stopAll()
Signal ==
    LET r == stopEach({l \in Langs : clients[l] # 0}, lc, stops)
    IN  /\ proc.pc = "running"
        /\ proc' = [proc EXCEPT !.pc = "stopping",
                                !.inflight = {s \in DOMAIN starts :
                                                 starts[s].state \in {"starting", "retrying"}}]
        /\ stopAllState = "none"
        /\ lc' = r.lc
        /\ stops' = r.stops
        /\ stopAllState' = IF r.stops = stops THEN "resolved" ELSE "pending"
        /\ Quiet
        /\ UNCHANGED <<clients, startingClients, starts, calls, nCalls>>
        /\ UNCHANGED <<fsVars, wsClients, clientProxies, proxies, tasks, observed, sent, nMsgs,
                       transport>>

\* stopAll has resolved: await wsServer.close(), whose error is caught with
\* process.exit(1); then server.close(callback) and setTimeout(..., 10000)
ShutdownContinues ==
    \E err \in BOOLEAN :
        /\ proc.pc = "stopping"
        /\ stopAllState = "resolved"
        /\ proc' = IF err THEN [proc EXCEPT !.pc = "exit1"]
                   ELSE [proc EXCEPT !.pc = "closing", !.timer = TRUE]
        /\ Quiet
        /\ UNCHANGED <<clients, startingClients, lc, starts, calls, nCalls, stops,
                       stopAllState>>
        /\ UNCHANGED <<fsVars, wsClients, clientProxies, proxies, tasks, observed, sent, nMsgs,
                       transport>>

\* a step of the process that changes only proc
ProcStep(pc) ==
    /\ proc' = [proc EXCEPT !.pc = pc]
    /\ UNCHANGED <<fsVars, mgrVars>>
    /\ UNCHANGED <<wsClients, clientProxies, proxies, tasks, observed, sent, nMsgs,
                   transport>>

\* the callback of server.close: process.exit(0)
ServerClosed == proc.pc = "closing" /\ ProcStep("exit0")

\* the 10 s timer fires: process.exit(1)
DeadlineFires == proc.pc = "closing" /\ proc.timer /\ ProcStep("exit1")

\* the manager at work in a process that is shut down at some point
NextShutdown ==
    \/ /\ proc.pc \notin {"exit0", "exit1"}
       /\ \/ GetOrCreateClient
          \/ StartSucceeds
          \/ IdleTimerFires
          \/ StopReturns
    \/ Signal
    \/ ShutdownContinues
    \/ ServerClosed
    \/ DeadlineFires

SpecShutdown == Init /\ [][NextShutdown]_vars

\* C22: from the signal on the 10 s deadline runs, also while the shutdown
\* waits for the stop of an analyzer, so that the process exits whatever
\* the analyzer does; and the process exits with 0 only once stopAll has
\* resolved.
C22_ShutdownDeadline ==
    /\ (proc.pc = "stopping" /\ stopAllState = "pending") => proc.timer
    /\ proc.pc = "exit0" => stopAllState = "resolved"

(***************************************************************************)
(* Properties of the manager, checked under SpecMgr.                       *)
(***************************************************************************)
AliveOf(languageId) == {c \in DOMAIN lc : lc[c].languageId = languageId /\ Alive(c)}

\* C3: at any instant at most one analyzer that has been started and has not
\* yet stopped exists per languageId, whatever the interleaving of
\* getOrCreateClient, stopClient, stopAll and idle-timer expiries.
C3_OneAnalyzerPerLanguage ==
    \A languageId \in ManagedLangs : Cardinality(AliveOf(languageId)) <= 1

\* the calls of the last step that were made while a start was in flight
Joined(i) == returned[i].start # 0 /\ returned[i].inflight # 0

\* C4: a getOrCreateClient call made for a language with no running analyzer
\* while a start is in flight constructs no client and awaits that very
\* start; the call that constructed the client is the first one; and all the
\* callers of one start receive the same client reference.
C4_StartsCoalesced ==
    /\ \A i \in DOMAIN calls :
           /\ calls[i].inflight # 0 =>
                  ~calls[i].constructed /\ calls[i].start = calls[i].inflight
           /\ calls[i].constructed =>
                  \A j \in DOMAIN calls : calls[j].start = calls[i].start => i <= j
    /\ \A i \in DOMAIN returned :
           /\ Joined(i) =>
                  ~returned[i].constructed /\ returned[i].start = returned[i].inflight
           /\ returned[i].start # 0 =>
                  /\ returned[1].constructed
                  /\ returned[i].start = returned[1].start
                  /\ returned[i].result = returned[1].result
                  /\ returned[i].status = returned[1].status
                  /\ returned[i].status = "returned" =>
                         returned[i].result = starts[returned[i].start].client

\* C4 witness: a start has resolved and handed one client to its initiator
\* and to a caller that joined it while it was in flight.
C4_Witness ==
    /\ Len(returned) >= 2
    /\ Joined(2)
    /\ returned[2].status = "returned"
    /\ returned[2].result = returned[1].result
    /\ lc[returned[2].result].state = "running"

\* C5: a notification emitted by an analyzer is delivered to the connection
\* of the session that obtained the analyzer last, also when that session
\* joined a start in flight.
C5_NotifiedToLastObtainer ==
    notified.client # 0 => notified.to = notified.obtainedBy

\* C20: a notification an analyzer emits is written to the open socket of
\* the session bound last, and the uri of diagnostics is the uri the client
\* uses for the document.
C20_AnalyzerNotificationsWritten ==
    (notified.client # 0 /\ notified.open)
        => /\ notified.written
           /\ notified.to = notified.obtainedBy
           /\ notified.method = PublishDiagnostics => notified.uri = notified.doc

InState(c, state) == c \in DOMAIN lc /\ lc[c].state = state

\* the calls completed in the last step that were handed a client
HandedOut == {i \in DOMAIN returned : returned[i].status = "returned"}

\* C13: an analyzer that is running and is used no more is eventually
\* stopped and removed from the manager, and every call that is handed an
\* analyzer leaves its idle timer armed anew.
C13_IdleAnalyzerStopped ==
    /\ \A c \in 1..MaxClients :
           InState(c, "running")
               ~> (InState(c, "stopped") /\ clients[lc[c].languageId] # c)
    /\ [][ \A i \in DOMAIN returned' :
              returned'[i].status = "returned" => lc'[returned'[i].result].idleTimer ]_vars

\* C14: once an analyzer has crashed, a call for its language is served by
\* a freshly started analyzer: no call is handed an analyzer that has crashed.
C14_CrashedNotHandedOut ==
    \A i \in HandedOut : ~InState(returned[i].result, "crashed")

\* the step is a call of getOrCreateClient for languageId
CallMade(languageId) ==
    /\ nCalls' # nCalls
    /\ \/ returned' # <<>> /\ returned'[1].languageId = languageId
       \/ Len(calls') > Len(calls) /\ calls'[Len(calls')].languageId = languageId

\* C27: a call of getOrCreateClient for a language whose analyzer is
\* registered and running returns that client at once, constructs and
\* starts nothing, leaves the idle timer of the entry armed and the window
\* of the entry bound to the connection of the caller.
C27_RunningClientReused ==
    [][\A languageId \in Langs :
          LET c == clients[languageId]
          IN  (CallMade(languageId) /\ InState(c, "running"))
                  => /\ Len(returned') = 1
                     /\ returned'[1].status = "returned"
                     /\ returned'[1].result = c
                     /\ Len(lc') = Len(lc)
                     /\ UNCHANGED <<clients, startingClients, starts, calls>>
                     /\ lc'[c].state = "running"
                     /\ lc'[c].idleTimer
                     /\ lc'[c].wsConnection = returned'[1].conn]_vars

\* a call has just been returned the running client of its language, which
\* another session had started, and the window is bound to the caller
C27_Witness ==
    \E i \in DOMAIN returned, s \in DOMAIN starts :
        /\ returned[i].status = "returned" /\ returned[i].start = 0
        /\ InState(returned[i].result, "running")
        /\ starts[s].client = returned[i].result
        /\ starts[s].conn # returned[i].conn
        /\ lc[returned[i].result].wsConnection = returned[i].conn
        /\ lc[returned[i].result].idleTimer

\* C15: getOrCreateClient throws for a language without a configured command
\* and when the start has failed maxRetries + 1 times, and for nothing else;
\* after the failure neither table holds an entry for the language, and a
\* call for a configured language made while neither table holds an entry
\* constructs a client and registers a new start.
C15_FailureLeavesNoEntry ==
    /\ [](\A i \in DOMAIN returned :
              returned[i].status = "threw" =>
                  /\ clients[returned[i].languageId] = 0
                  /\ startingClients[returned[i].languageId] = 0
                  /\ IF returned[i].start = 0
                     THEN returned[i].languageId \notin ManagedLangs
                     ELSE /\ starts[returned[i].start].state = "rejected"
                          /\ starts[returned[i].start].retryCount = maxRetries + 1)
    /\ [][ \A languageId \in Langs :
              CallMade(languageId) =>
                  /\ languageId \notin ManagedLangs =>
                         returned' # <<>> /\ returned'[1].status = "threw"
                  /\ ( /\ languageId \in ManagedLangs
                       /\ clients[languageId] = 0
                       /\ startingClients[languageId] = 0 ) =>
                         /\ Len(calls') > Len(calls)
                         /\ calls'[Len(calls')].constructed
                         /\ startingClients'[languageId] = Len(starts')
                         /\ Len(starts') > Len(starts)
                         /\ Len(lc') > Len(lc) ]_vars

\* C15 witness: a start was rejected after maxRetries + 1 failed attempts and
\* a later call for the same language has begun a new start.
C15_Witness ==
    \E s \in DOMAIN starts, t \in DOMAIN starts :
        /\ s < t
        /\ starts[s].languageId = starts[t].languageId
        /\ starts[s].state = "rejected"
        /\ starts[s].retryCount = maxRetries + 1
        /\ startingClients[starts[t].languageId] = t

(***************************************************************************)
(* The transport, the handlers of index.ts and LSPProxy (lsp/proxy.ts).    *)
(* A task is the function a handler gives to withUriLock; its index in     *)
(* tasks is the order in which the messages arrived.  pc is where the task *)
(* is suspended: "queued" (behind the promise of prev), "createFile",      *)
(* "updateFile", "getFile", "deleteFile" (a store call in progress),       *)
(* "getClient" (awaiting getOrCreateClient), "awaitReply" (awaiting        *)
(* sendRequest); or how its promise settled: "done" (fulfilled), "failed"  *)
(* (the task threw), "skipped" (rejected with prev, the task never ran).   *)
(* The manager is seen from the caller's side here: getOrCreateClient      *)
(* returns a client after a while, or throws for a language without a      *)
(* config.                                                                 *)
(***************************************************************************)
MaxMsgs == 3        \* client messages received
MaxProxies == 2     \* LSPProxy constructions

DidOpen == "textDocument/didOpen"
DidChange == "textDocument/didChange"
DidClose == "textDocument/didClose"
DidSave == "textDocument/didSave"
Requests == {"textDocument/completion", "textDocument/hover"}

DocUris == { FilePrefix \o <<Slash>> \o NameA,
             FilePrefix \o <<Slash, "d", Slash>> \o NameA }
Versions == {1, 2}
\* the text a client sends with a version
TextOf(version) == IF version = 1 THEN "t1" ELSE "t2"
NoText == "none"    \* a content change that carries no text
OpenLanguageIds == {"typescript", "plaintext"}

\* the requests LSPProxy.handleMessage has a case for: those of Requests
\* (definition and references are handled as hover is) and formatting
Formatting == "textDocument/formatting"
ProxyRequests == Requests \cup {Formatting}

InternalError == -32603     \* proxy.ts: createErrorResponse(id, -32603, ...)
InvalidRequest == -32600    \* proxy.ts: a message without a method
MethodNotFound == -32601    \* proxy.ts and websocket.ts: no case, no handler
ParseError == -32700        \* websocket.ts: JSON.parse threw

Undefined == 0              \* the id of a message that carries none
Null == -1                  \* the id null of a response

\* new Error(message): what the message says and the uri or method it names
Err(kind, names) == [kind |-> kind, names |-> names]
NoError == Err("", <<>>)
\* `Failed to ...: File not found: ${uri}`
FileNotFound(uri) == Err("File not found", uri)

createSuccessResponse(id) ==
    [id |-> IF id # Undefined THEN id ELSE Null, code |-> 0, error |-> NoError]

\* an error response that loses the id of the request
createErrorResponseNoId(id, code, message) ==
    [id |-> Null, code |-> code, error |-> message]

createErrorResponse(id, code, message) ==
    [id |-> IF id # Undefined THEN id ELSE Null, code |-> code, error |-> message]

Settled(pc) == pc \in {"done", "failed", "skipped"}

\* where a task is suspended first once it runs
FirstPc(method, text) ==
    IF method = DidOpen THEN "createFile"
    ELSE IF method = DidChange /\ text # NoText THEN "updateFile"
    ELSE "getFile"

\* a proxy that never awaits the reply of the analyzer
AfterForwardNoAwait(method) == IF method = DidClose THEN "deleteFile" ELSE "done"

\* where a task goes after it has forwarded its message to the analyzer
AfterForward(method) ==
    IF method \in ProxyRequests THEN "awaitReply"
    ELSE IF method = DidClose THEN "deleteFile"
    ELSE "done"

\* a proxy whose lock map is never found occupied
lockPrevNone(ps, p, uri) == 0

\* this.uriLocks.get(uri) || Promise.resolve(): the task whose promise is
\* stored for the uri (0: none, an already resolved promise)
lockPrev(ps, p, uri) == ps[p].uriLocks[uri]

NewProxy(clientId) == [client |-> clientId, uriLocks |-> [uri \in DocUris |-> 0]]

RECURSIVE Release(_, _, _)
\* the promise of task t settles: the task chained on it with prev.then(task)
\* starts if it was fulfilled, and is rejected in its turn without running if
\* it was rejected
Release(ts, t, fulfilled) ==
    LET next == {s \in DOMAIN ts : ts[s].prev = t /\ ts[s].pc = "queued"}
    IN  IF next = {} THEN ts
        ELSE LET s == CHOOSE x \in next : TRUE
             IN  IF fulfilled
                 THEN [ts EXCEPT ![s].pc = FirstPc(ts[s].method, ts[s].text)]
                 ELSE Release([ts EXCEPT ![s].pc = "skipped", ![s].error = ts[t].error],
                              s, FALSE)

\* task t settles as outcome ("done" or "failed")
Finish(ts, t, outcome) == Release([ts EXCEPT ![t].pc = outcome], t, outcome = "done")

\* task t throws error
Throw(ts, t, error) == Finish([ts EXCEPT ![t].error = error], t, "failed")

\* what handleMessage returns for the message of a settled task: the result
\* of the handler, or the error response of its catch block
Reply(task) ==
    IF task.pc = "done" THEN createSuccessResponse(task.id)
    ELSE createErrorResponse(task.id, InternalError, task.error)

\* a handler of index.ts that writes what handleMessage returns
AnsweredAll(method) == TRUE

\* the handlers of index.ts that write what handleMessage returns to the
\* client: those of the requests, not those of the notifications
Answered(method) == method \in Requests

\* a withUriLock whose finally deletes nothing
UnlockNever(ts) == proxies

\* the finally of withUriLock: the entry is deleted by the task it holds
Unlock(ts) ==
    [p \in DOMAIN proxies |->
        [proxies[p] EXCEPT !.uriLocks =
            [uri \in DocUris |->
                IF @[uri] # 0 /\ Settled(ts[@[uri]].pc) THEN 0 ELSE @[uri]]]]

RECURSIVE Responses(_, _, _)
\* handleMessage returns a response for each request whose task has just
\* settled, and the handler of index.ts writes it with sendToClient, which
\* drops it if the socket is gone
Responses(ts, i, out) ==
    IF i > Len(tasks) THEN out
    ELSE LET clientId == proxies[tasks[i].proxy].client
             answers == /\ ~Settled(tasks[i].pc)
                        /\ Settled(ts[i].pc)
                        /\ Answered(tasks[i].method)
                        /\ wsClients[clientId] = "open"
             response == [client |-> clientId, task |-> i, reply |-> Reply(ts[i])]
         IN  Responses(ts, i + 1, IF answers THEN Append(out, response) ELSE out)

\* the tasks move to ts: locks are cleared and responses written accordingly
Moves(ts) ==
    /\ tasks' = ts
    /\ proxies' = Unlock(ts)
    /\ sent' = Responses(ts, 1, sent)

\* withUriLock(uri, task) of proxy p, among the proxies ps, up to its await
withUriLock(p, uri, task, ps) ==
    LET prev == lockPrev(ps, p, uri)
        t == Len(tasks) + 1
    IN  /\ tasks' = Append(tasks, [task EXCEPT !.proxy = p, !.prev = prev,
                                     !.pc = IF prev = 0 THEN FirstPc(task.method, task.text)
                                            ELSE "queued"])
        /\ proxies' = [ps EXCEPT ![p].uriLocks[uri] = t]

Message(method, uri, id, version, text, languageId) ==
    [proxy |-> 0, prev |-> 0, pc |-> "queued", method |-> method, uri |-> uri, id |-> id,
     version |-> version, text |-> text, languageId |-> languageId,
     file |-> NoFile, replied |-> FALSE, error |-> NoError]

PrxCalled == UNCHANGED <<fsOps, mgrVars, proc, transport>>
StoreUntouched == UNCHANGED <<files, dirs, fileVersions, fileLanguages, fsLast>>
Received == nMsgs < MaxMsgs /\ nMsgs' = nMsgs + 1

\* what the analyzer of the language is sent by task t
Forwarded(t, languageId) ==
    [languageId |-> languageId, method |-> tasks[t].method,
     uri |-> FilePrefix \o uriToPath(tasks[t].uri),
     version |-> IF tasks[t].method \in {DidOpen, DidChange} THEN tasks[t].version ELSE 0,
     text |-> IF tasks[t].method = DidOpen THEN tasks[t].text
              ELSE IF tasks[t].method = DidChange THEN tasks[t].file.content
              ELSE NoText,
     doc |-> tasks[t].uri, task |-> t]

\* wss.on('connection'): a client id is made and the socket registered
Connect ==
    \E clientId \in ClientIds :
        /\ wsClients[clientId] = "new"
        /\ wsClients' = [wsClients EXCEPT ![clientId] = "open"]
        /\ UNCHANGED <<clientProxies, proxies, tasks, observed, sent, nMsgs>>
        /\ StoreUntouched /\ PrxCalled

\* ws.on('close'): handleDisconnect, then the onDisconnect handler of index.ts
Disconnect ==
    \E clientId \in ClientIds :
        /\ wsClients[clientId] = "open"
        /\ wsClients' = [wsClients EXCEPT ![clientId] = "closed"]
        /\ clientProxies' = [clientProxies EXCEPT ![clientId] = 0]
        /\ UNCHANGED <<proxies, tasks, observed, sent, nMsgs>>
        /\ StoreUntouched /\ PrxCalled

\* the handler of initialize: a new proxy replaces the one of the client, and
\* the capabilities are answered
Initialize ==
    \E clientId \in ClientIds :
        /\ wsClients[clientId] = "open"
        /\ Received
        /\ Len(proxies) < MaxProxies
        /\ proxies' = Append(proxies, NewProxy(clientId))
        /\ clientProxies' = [clientProxies EXCEPT ![clientId] = Len(proxies) + 1]
        /\ sent' = Append(sent, [client |-> clientId, task |-> 0,
                                  reply |-> createSuccessResponse(nMsgs + 1)])
        /\ UNCHANGED <<wsClients, tasks, observed>>
        /\ StoreUntouched /\ PrxCalled

\* the handler of textDocument/didOpen: a proxy is made if the client has none
RecvDidOpen ==
    \E clientId \in ClientIds, uri \in DocUris, version \in Versions,
       languageId \in OpenLanguageIds :
        LET text == TextOf(version)
            fresh == clientProxies[clientId] = 0
            p == IF fresh THEN Len(proxies) + 1 ELSE clientProxies[clientId]
            ps == IF fresh THEN Append(proxies, NewProxy(clientId)) ELSE proxies
        IN  /\ wsClients[clientId] = "open"
            /\ Received
            /\ fresh => Len(proxies) < MaxProxies
            /\ clientProxies' = [clientProxies EXCEPT ![clientId] = p]
            /\ withUriLock(p, uri, Message(DidOpen, uri, 0, version, text, languageId), ps)
            /\ UNCHANGED <<wsClients, observed, sent>>
            /\ StoreUntouched /\ PrxCalled

\* a handler of index.ts that drops the message if the client has no proxy
Routed(clientId, message) ==
    /\ wsClients[clientId] = "open"
    /\ IF clientProxies[clientId] = 0
       THEN UNCHANGED <<tasks, proxies>>
       ELSE withUriLock(clientProxies[clientId], message.uri, message, proxies)
    /\ UNCHANGED <<wsClients, clientProxies, observed, sent>>
    /\ StoreUntouched /\ PrxCalled

\* the last content change of a didChange carries the full text of the
\* version, or the text of a range edit that leads to it (a part of the
\* document, written "edit"), or there is none
RecvDidChange ==
    \E clientId \in ClientIds, uri \in DocUris, version \in Versions :
    \E text \in {TextOf(version), "edit", NoText} :
        Received /\ Routed(clientId, Message(DidChange, uri, 0, version, text, ""))

RecvDidClose ==
    \E clientId \in ClientIds, uri \in DocUris :
        Received /\ Routed(clientId, Message(DidClose, uri, 0, 0, NoText, ""))

RecvDidSave ==
    \E clientId \in ClientIds, uri \in DocUris :
        Received /\ Routed(clientId, Message(DidSave, uri, 0, 0, NoText, ""))

RecvRequest ==
    \E clientId \in ClientIds, uri \in DocUris, method \in Requests :
        Received /\ Routed(clientId, Message(method, uri, nMsgs + 1, 0, NoText, ""))

\* the methods no handler of index.ts is registered for, "" standing for a
\* message that has no method
Unhandled == {"", Formatting, "workspace/symbol"}

\* sendError of the transport: sendToClient writes if the socket is open
sendError(clientId, code, message, id) ==
    sent' = IF wsClients[clientId] = "open"
            THEN Append(sent, [client |-> clientId, task |-> 0,
                               reply |-> [id |-> IF id # Undefined THEN id ELSE Null,
                                          code |-> code, error |-> message]])
            ELSE sent

\* LSPWebSocketServer.handleMessage for a message no handler takes: without a
\* method it is ignored, with one it is answered -32601 if it carries an id
RecvUnhandledMessage(clientId, method, id) ==
    /\ wsClients[clientId] = "open"
    /\ Received
    /\ IF method # "" /\ id # Undefined
       THEN sendError(clientId, MethodNotFound, Err("Method not found", method), id)
       ELSE UNCHANGED sent
    /\ UNCHANGED <<wsClients, clientProxies, proxies, tasks, observed>>
    /\ StoreUntouched /\ PrxCalled

RecvUnhandled ==
    \E clientId \in ClientIds, method \in Unhandled, id \in {Undefined, nMsgs + 1} :
        RecvUnhandledMessage(clientId, method, id)

\* ws.on('message') for a frame JSON.parse throws on: the catch block
\* answers -32700 without an id
RecvUnparseable ==
    \E clientId \in ClientIds :
        /\ wsClients[clientId] = "open"
        /\ Received
        /\ sendError(clientId, ParseError, Err("Parse error", <<>>), Undefined)
        /\ UNCHANGED <<wsClients, clientProxies, proxies, tasks, observed>>
        /\ StoreUntouched /\ PrxCalled

\* ws.on('message') for a frame that parses: the message goes to
\* handleMessage and its handler; the size of the frame (oversized: above
\* the 16 MiB of the specification) is looked at nowhere
OnMessage(oversized) ==
    \/ Initialize
    \/ RecvDidOpen
    \/ RecvDidChange
    \/ RecvDidClose
    \/ RecvDidSave
    \/ RecvRequest
    \/ RecvUnhandled

At(t, pc) == t \in DOMAIN tasks /\ tasks[t].pc = pc

TaskStep == UNCHANGED <<wsClients, clientProxies, nMsgs>> /\ PrxCalled

\* await this.fileSystem.createFile(uri, text, languageId) completes
TaskCreateFile ==
    \E t \in DOMAIN tasks :
        /\ At(t, "createFile")
        /\ createFile(tasks[t].uri, tasks[t].text, tasks[t].languageId)
        /\ Moves(IF fsLast'.outcome = "ok"
                 THEN [tasks EXCEPT ![t].pc = "getClient"]
                 ELSE Throw(tasks, t, Err("createFile", <<>>)))
        /\ UNCHANGED observed
        /\ TaskStep

\* await this.fileSystem.updateFile(uri, lastChange.text) completes
TaskUpdateFile ==
    \E t \in DOMAIN tasks :
        /\ At(t, "updateFile")
        /\ updateFile(tasks[t].uri, tasks[t].text)
        /\ Moves(IF fsLast'.outcome = "ok"
                 THEN [tasks EXCEPT ![t].pc = "getFile"]
                 ELSE Throw(tasks, t, Err("updateFile", <<>>)))
        /\ UNCHANGED observed
        /\ TaskStep

\* await this.fileSystem.getFile(uri) completes: without a file a
\* notification returns and a request throws
TaskGetFile ==
    \E t \in DOMAIN tasks :
        LET file == FileEntry(tasks[t].uri)
        IN  /\ At(t, "getFile")
            /\ getFile(tasks[t].uri)
            /\ Moves(IF file = NoFile
                     THEN IF tasks[t].method \in ProxyRequests
                          THEN Throw(tasks, t, FileNotFound(tasks[t].uri))
                          ELSE Finish(tasks, t, "done")
                     ELSE [tasks EXCEPT ![t].pc = "getClient", ![t].file = file])
            /\ UNCHANGED observed
            /\ TaskStep

\* await this.lsManager.getOrCreateClient(languageId, ...) completes: it
\* throws without a config, else the message is forwarded at once
TaskGetClient ==
    \E t \in DOMAIN tasks :
        LET languageId == IF tasks[t].method = DidOpen THEN tasks[t].languageId
                          ELSE tasks[t].file.languageId
            pc == AfterForward(tasks[t].method)
        IN  /\ At(t, "getClient")
            /\ IF ~HasConfig(languageId)
               THEN /\ Moves(Throw(tasks, t, Err("Unsupported language", <<>>)))
                    /\ UNCHANGED observed
               ELSE /\ observed' = Append(observed, Forwarded(t, languageId))
                    /\ Moves(IF pc = "done" THEN Finish(tasks, t, "done")
                             ELSE [tasks EXCEPT ![t].pc = pc])
            /\ StoreUntouched
            /\ TaskStep

\* await this.fileSystem.deleteFile(uri) completes, at the end of didClose
TaskDeleteFile ==
    \E t \in DOMAIN tasks :
        /\ At(t, "deleteFile")
        /\ deleteFile(tasks[t].uri)
        /\ Moves(Finish(tasks, t, "done"))
        /\ UNCHANGED observed
        /\ TaskStep

\* await client.sendRequest(...) completes with a result or with an error
TaskReply ==
    \E t \in DOMAIN tasks, ok \in BOOLEAN :
        /\ At(t, "awaitReply")
        /\ Moves(IF ok THEN Finish([tasks EXCEPT ![t].replied = TRUE], t, "done")
                 ELSE Throw([tasks EXCEPT ![t].replied = TRUE], t, Err("analyzer", <<>>)))
        /\ UNCHANGED observed
        /\ StoreUntouched
        /\ TaskStep

Next ==
    \/ Connect
    \/ Disconnect
    \/ Initialize
    \/ RecvDidOpen
    \/ RecvDidChange
    \/ RecvDidClose
    \/ RecvDidSave
    \/ RecvRequest
    \/ RecvUnhandled
    \/ RecvUnparseable
    \/ TaskCreateFile
    \/ TaskUpdateFile
    \/ TaskGetFile
    \/ TaskGetClient
    \/ TaskDeleteFile
    \/ TaskReply

Spec == Init /\ [][Next]_vars

(***************************************************************************)
(* Properties of the proxy, checked under Spec.                            *)
(***************************************************************************)
SameLock(s, t) == tasks[s].proxy = tasks[t].proxy /\ tasks[s].uri = tasks[t].uri

Running(t) == tasks[t].pc # "queued" /\ ~Settled(tasks[t].pc)

HasForwarded(t) == \E i \in DOMAIN observed : observed[i].task = t

ProxiesOf(clientId) == {p \in DOMAIN proxies : proxies[p].client = clientId}

FromClient(i, clientId) == tasks[observed[i].task].proxy \in ProxiesOf(clientId)

\* the analyzer has been sent a didOpen of the uri from the client and no
\* didClose of it from the client since
OpenFor(clientId, uri) ==
    \E i \in DOMAIN observed :
        /\ FromClient(i, clientId)
        /\ observed[i].doc = uri /\ observed[i].method = DidOpen
        /\ \A j \in DOMAIN observed :
               (j > i /\ FromClient(j, clientId) /\ observed[j].doc = uri)
                   => observed[j].method # DidClose

Quiescent(clientId) ==
    \A t \in DOMAIN tasks : tasks[t].proxy \in ProxiesOf(clientId) => Settled(tasks[t].pc)

\* C6: once a session is closed and its tasks have settled, every document it
\* had open has been closed at the analyzer and none of its locks is held.
C6_ClosedSessionClosesDocuments ==
    \A clientId \in ClientIds :
        (wsClients[clientId] = "closed" /\ Quiescent(clientId))
            => /\ \A uri \in DocUris : ~OpenFor(clientId, uri)
               /\ \A p \in ProxiesOf(clientId), uri \in DocUris : proxies[p].uriLocks[uri] = 0

Versioned(i) == observed[i].method \in {DidOpen, DidChange}

\* C9: the versions the analyzer is sent for a uri with didOpen and didChange
\* are strictly increasing, and the version the store tracks for a uri never
\* decreases while it tracks the uri.
C9_VersionsIncrease ==
    /\ [](\A i, j \in DOMAIN observed :
             (i < j /\ Versioned(i) /\ Versioned(j) /\ observed[i].uri = observed[j].uri)
                 => observed[i].version < observed[j].version)
    /\ [][\A uri \in DOMAIN fileVersions \cap DOMAIN fileVersions' :
             fileVersions'[uri] >= fileVersions[uri]]_vars

\* the document is open: a didOpen of it has been forwarded, no didClose since
DocOpen(uri) ==
    \E i \in DOMAIN observed :
        /\ observed[i].doc = uri /\ observed[i].method = DidOpen
        /\ \A j \in DOMAIN observed :
               (j > i /\ observed[j].doc = uri) => observed[j].method # DidClose

\* C10: the createFile of a didOpen for a document that is already open
\* leaves the version the store tracks for it as it was.
C10_RepeatedOpenKeepsVersion ==
    [][\A t \in DOMAIN tasks :
          ( /\ tasks[t].pc = "createFile" /\ tasks'[t].pc # "createFile"
            /\ DocOpen(tasks[t].uri)
            /\ tasks[t].uri \in DOMAIN fileVersions )
              => /\ tasks[t].uri \in DOMAIN fileVersions'
                 /\ fileVersions'[tasks[t].uri] = fileVersions[tasks[t].uri]]_vars

\* task t is rejected in this step: its handler threw, or the promise it was
\* chained on was rejected
Rejects(t) == ~Settled(tasks[t].pc) /\ tasks'[t].pc \in {"failed", "skipped"}

\* C16: when the handler of a request fails, handleMessage returns an error
\* reply with the id of the request and code -32603, and when the request
\* names a uri the store does not know the message is 'File not found' with
\* that uri.
C16_RequestErrorReply ==
    [][\A t \in DOMAIN tasks :
          (tasks[t].method \in ProxyRequests /\ Rejects(t))
              => /\ Reply(tasks'[t]).id = tasks[t].id
                 /\ Reply(tasks'[t]).code = InternalError
                 /\ ( /\ tasks[t].pc \in {"queued", "getFile"}
                      /\ FileEntry(tasks[t].uri) = NoFile )
                        => Reply(tasks'[t]).error = FileNotFound(tasks[t].uri)]_vars

\* C17: a message with an id is answered under that id with -32600 when it
\* has no method and with -32601 when no handler takes its method, and
\* neither changes the store or reaches an analyzer.
C17_InvalidAndUnknownAnswered ==
    [][\A clientId \in ClientIds, method \in Unhandled :
          RecvUnhandledMessage(clientId, method, nMsgs + 1)
              => /\ Len(sent') = Len(sent) + 1
                 /\ sent'[Len(sent')].client = clientId
                 /\ sent'[Len(sent')].reply.id = nMsgs + 1
                 /\ sent'[Len(sent')].reply.code =
                        (IF method = "" THEN InvalidRequest ELSE MethodNotFound)
                 /\ StoreUntouched
                 /\ UNCHANGED <<observed, mgrVars>>]_vars

\* C18: a request among the five that a client sends for a document it has
\* opened becomes a task of the client's proxy for that document (which
\* forwards it to the analyzer of the document's language), and what is
\* written back for a request carries the id of the request.
C18_RequestsRouted ==
    /\ [][\A clientId \in ClientIds, uri \in DocUris, method \in ProxyRequests :
             ( /\ OpenFor(clientId, uri)
               /\ \/ Received /\ Routed(clientId, Message(method, uri, nMsgs + 1, 0, NoText, ""))
                  \/ RecvUnhandledMessage(clientId, method, nMsgs + 1) )
                 => \E t \in DOMAIN tasks' \ DOMAIN tasks :
                        /\ tasks'[t].proxy \in ProxiesOf(clientId)
                        /\ tasks'[t].method = method
                        /\ tasks'[t].uri = uri
                        /\ tasks'[t].id = nMsgs + 1]_vars
    /\ [](\A i \in DOMAIN sent :
             sent[i].task # 0 => /\ sent[i].reply.id = tasks[sent[i].task].id
                                 /\ sent[i].client = proxies[tasks[sent[i].task].proxy].client)

Notifications == {DidOpen, DidChange, DidClose, DidSave}

\* C19: nothing is written to the client in response to a notification,
\* whether its handler succeeds or fails: every message written for a task
\* answers a request.
C19_NotificationsNeverAnswered ==
    \A i \in DOMAIN sent :
        sent[i].task # 0 => tasks[sent[i].task].method \notin Notifications

\* a notification has failed and another has succeeded while the socket of
\* their client is open
C19_Witness ==
    \E t, u \in DOMAIN tasks :
        /\ tasks[t].method \in Notifications /\ tasks[t].pc = "failed"
        /\ tasks[u].method \in Notifications /\ tasks[u].pc = "done"
        /\ wsClients[proxies[tasks[t].proxy].client] = "open"
        /\ wsClients[proxies[tasks[u].proxy].client] = "open"
        /\ \A i \in DOMAIN sent : sent[i].task \notin {t, u}

\* C21: once a client has disconnected, the requests of its session are
\* cancelled (none is forwarded to an analyzer any more), nothing is written
\* to its socket, its proxy is removed from the table, and the step of the
\* disconnect leaves the analyzers as they are.
C21_DisconnectCancels ==
    [][\A clientId \in ClientIds :
          /\ wsClients[clientId] = "closed"
                => /\ \A i \in DOMAIN sent' \ DOMAIN sent : sent'[i].client # clientId
                   /\ clientProxies'[clientId] = 0
                   /\ \A i \in DOMAIN observed' \ DOMAIN observed :
                          proxies'[tasks'[observed'[i].task].proxy].client = clientId
                              => observed'[i].method \notin Requests
          /\ (wsClients[clientId] = "open" /\ wsClients'[clientId] = "closed")
                => clientProxies'[clientId] = 0 /\ UNCHANGED mgrVars]_vars

\* C23: a didChange for a uri the store does not know creates the document
\* with the content of the change and version 1 and goes on to be
\* forwarded when it supplies content, and creates and forwards nothing
\* when it supplies none.
C23_ChangeCreatesOnWrite ==
    [][\A t \in DOMAIN tasks :
          ( /\ tasks[t].method = DidChange
            /\ tasks'[t].pc # tasks[t].pc
            /\ tasks[t].pc \in {"updateFile", "getFile"}
            /\ FileEntry(tasks[t].uri) = NoFile )
              => IF tasks[t].pc = "updateFile"
                 THEN /\ FileEntryAfter(tasks[t].uri) # NoFile
                      /\ FileEntryAfter(tasks[t].uri).content = tasks[t].text
                      /\ FileEntryAfter(tasks[t].uri).version = 1
                      /\ tasks'[t].pc = "getFile"
                 ELSE UNCHANGED <<files, dirs, fileVersions, fileLanguages, observed>>]_vars

\* C24: the updateFile of a didChange leaves the full text of the new
\* version of the document in the store, also when the change is a range
\* edit, and the analyzer is sent the full text of the version with a
\* didChange.
C24_FullContentStored ==
    /\ [][\A t \in DOMAIN tasks :
             ( /\ tasks[t].method = DidChange
               /\ tasks[t].pc = "updateFile"
               /\ tasks'[t].pc = "getFile" )
                 => FileEntryAfter(tasks[t].uri).content = TextOf(tasks[t].version)]_vars
    /\ [](\A i \in DOMAIN observed :
             (observed[i].method = DidChange /\ tasks[observed[i].task].text # NoText)
                 => observed[i].text = TextOf(observed[i].version))

\* C28: a frame above the ceiling is answered with -32600 and goes to no
\* handler, a frame that does not parse is answered with -32700, and
\* neither closes the connection.
C28_OversizedAndUnparseable ==
    [][/\ (nMsgs' # nMsgs /\ OnMessage(TRUE))
             => /\ Len(sent') = Len(sent) + 1
                /\ sent'[Len(sent')].reply.code = InvalidRequest
                /\ UNCHANGED <<wsClients, clientProxies, proxies, tasks>>
       /\ (nMsgs' # nMsgs /\ RecvUnparseable)
             => /\ Len(sent') = Len(sent) + 1
                /\ sent'[Len(sent')].reply.code = ParseError
                /\ UNCHANGED wsClients]_vars

\* C29: whatever an analyzer is sent for a uri other than a didOpen comes
\* after a didOpen of that uri to that analyzer with no didClose of it in
\* between.
C29_OpenBeforeUse ==
    \A i \in DOMAIN observed :
        observed[i].method # DidOpen
            => \E j \in 1..(i - 1) :
                   /\ observed[j].method = DidOpen
                   /\ observed[j].uri = observed[i].uri
                   /\ observed[j].languageId = observed[i].languageId
                   /\ \A k \in (j + 1)..(i - 1) :
                          ~(observed[k].uri = observed[i].uri /\ observed[k].method = DidClose)

\* the tasks of proxy p for the uri have all settled, in the tasks ts
AllSettled(ts, p, uri) ==
    \A t \in DOMAIN ts : (ts[t].proxy = p /\ ts[t].uri = uri) => Settled(ts[t].pc)

\* C30: the entry of a uri in the lock map of a proxy is removed only when
\* no task of the proxy for the uri is queued or running, and the map holds
\* no entry for a uri all of whose tasks have finished, with or without an
\* error.
C30_LockMapEntries ==
    /\ [][\A p \in DOMAIN proxies, uri \in DocUris :
             (proxies[p].uriLocks[uri] # 0 /\ proxies'[p].uriLocks[uri] = 0)
                 => AllSettled(tasks', p, uri)]_vars
    /\ [](\A p \in DOMAIN proxies, uri \in DocUris :
             AllSettled(tasks, p, uri) => proxies[p].uriLocks[uri] = 0)

\* a task has failed, the task queued behind it was rejected with it, and the
\* map of their proxy holds no entry for their uri
C30_Witness ==
    \E t, u \in DOMAIN tasks :
        /\ tasks[t].pc = "failed"
        /\ tasks[u].pc = "skipped" /\ tasks[u].prev = t
        /\ AllSettled(tasks, tasks[t].proxy, tasks[t].uri)
        /\ proxies[tasks[t].proxy].uriLocks[tasks[t].uri] = 0

\* C31: once a didClose that ran has finished, with every other task of the
\* uri finished before it under the same lock, the store has no file for
\* the uri and tracks neither a version nor a languageId for it.
C31_ClosedDocumentDestroyed ==
    \A t \in DOMAIN tasks :
        ( /\ tasks[t].method = DidClose
          /\ tasks[t].pc \in {"done", "failed"}
          /\ \A s \in DOMAIN tasks :
                 (s # t /\ tasks[s].uri = tasks[t].uri)
                     => s < t /\ SameLock(s, t) /\ Settled(tasks[s].pc) )
            => /\ ~Exists(uriToPath(tasks[t].uri))
               /\ tasks[t].uri \notin DOMAIN fileVersions
               /\ tasks[t].uri \notin DOMAIN fileLanguages

\* C34: no task is rejected without running because the task before it in
\* the chain of its uri failed: every task queued behind a failed one runs.
C34_FailureNotPropagated ==
    \A t \in DOMAIN tasks :
        tasks[t].prev # 0 /\ tasks[tasks[t].prev].pc = "failed"
            => tasks[t].pc # "skipped"

\* C35: a request that is received, whatever came before it on the
\* connection, is either answered at once under its id or has become a task
\* that will be answered when it settles, and no id is answered twice.
C35_RequestNeverDropped ==
    /\ [][\A clientId \in ClientIds, uri \in DocUris, method \in Requests :
             ( /\ nMsgs' # nMsgs
               /\ Routed(clientId, Message(method, uri, nMsgs + 1, 0, NoText, "")) )
                 => \/ \E t \in DOMAIN tasks' \ DOMAIN tasks : tasks'[t].id = nMsgs + 1
                    \/ /\ Len(sent') = Len(sent) + 1
                       /\ sent'[Len(sent')].reply.id = nMsgs + 1]_vars
    /\ [](\A i, j \in DOMAIN sent :
             (i # j /\ sent[i].reply.id = sent[j].reply.id) => sent[i].reply.id = Null)

(***************************************************************************)
(* Further properties of the manager, checked under SpecShutdown.          *)
(***************************************************************************)
\* C32: an idle timer that fires stops at most the analyzer entry it was
\* armed for: when its stopClient turns an analyzer from running to
\* stopping, the timer of no other entry was the one that expired.
C32_TimerStopsOwnAnalyzer ==
    [][IdleTimerFires
          => \A d \in DOMAIN lc :
                 (lc[d].state = "running" /\ lc'[d].state = "stopping")
                     => \A e \in DOMAIN lc \ {d} : lc'[e].idleTimer = lc[e].idleTimer]_vars

\* C36: once the stopAll of the shutdown has resolved, no start that was in
\* flight when stopAll was called has left an analyzer that is running or
\* registered in the manager.
C36_StopAllLeavesNothing ==
    stopAllState = "resolved"
        => \A s \in proc.inflight :
               /\ lc[starts[s].client].state # "running"
               /\ clients[starts[s].languageId] # starts[s].client

\* C37: the entry of a language is removed from the manager only together
\* with the completion of the stop of the analyzer it holds, so that a
\* running analyzer is never left without its entry.
C37_StopRemovesOwnEntry ==
    [][\A l \in Langs :
          (clients[l] # 0 /\ clients'[l] = 0) => lc'[clients[l]].state = "stopped"]_vars

\* C38: no call of getOrCreateClient is handed an analyzer whose stop has
\* begun or has completed.
C38_StoppingNotHandedOut ==
    \A i \in HandedOut : lc[returned[i].result].state \notin {"stopping", "stopped"}

(***************************************************************************)
(* WebSocketTransport of the browser client (transport/websocket.ts).      *)
(* transport.sockets holds every WebSocket the transport constructed: its  *)
(* state ("connecting", "open", "closing", "closed"), whether it was ever  *)
(* open, and the timer whose callback constructed it (0: connect() was     *)
(* called by the language client).  transport.timers holds every timer     *)
(* the transport set: its delay, the socket whose close event set it, and  *)
(* its state ("pending", "fired", "cleared").  The reader and the writer   *)
(* of the transport are left out.                                          *)
(***************************************************************************)
MaxSockets == 12            \* WebSocket constructions

maxReconnectAttempts == 10  \* websocket.ts: private maxReconnectAttempts = 10
reconnectDelay == 1000      \* websocket.ts: private reconnectDelay = 1000
maxDelay == 30000           \* websocket.ts: Math.min(..., 30000)

\* connect(), called by the language client (timer 0) or by the callback of
\* a timer: new WebSocket(this.url) with its handlers, kept in this.socket
connect(t, timer) ==
    [t EXCEPT !.sockets = Append(@, [state |-> "connecting", opened |-> FALSE,
                                     timer |-> timer]),
              !.socket = Len(t.sockets) + 1]

\* an attemptReconnect that never gives up
attemptReconnectForever(t, s) ==
    LET attempts == t.reconnectAttempts + 1
        delay == reconnectDelay * 2^(attempts - 1)
    IN  [t EXCEPT !.reconnectAttempts = attempts,
                  !.timers = Append(@, [delay |-> IF delay < maxDelay THEN delay ELSE maxDelay,
                                        socket |-> s, state |-> "pending"]),
                  !.reconnectTimer = Len(t.timers) + 1]

\* attemptReconnect(), called by the close event of socket s
attemptReconnect(t, s) ==
    IF t.reconnectAttempts >= maxReconnectAttempts THEN t
    ELSE LET attempts == t.reconnectAttempts + 1
             delay == reconnectDelay * 2^(attempts - 1)
         IN  [t EXCEPT !.reconnectAttempts = attempts,
                       !.timers = Append(@, [delay |-> IF delay < maxDelay THEN delay
                                                       ELSE maxDelay,
                                             socket |-> s, state |-> "pending"]),
                       !.reconnectTimer = Len(t.timers) + 1]

\* a step of the browser leaves the server as it is
BrowserStep == UNCHANGED <<fsVars, mgrVars, wsClients, clientProxies, proxies, tasks,
                           observed, sent, nMsgs, proc>>

\* the language client starts and calls connect(), once
ClientConnects ==
    /\ transport.sockets = <<>>
    /\ ~transport.disposed
    /\ transport' = connect(transport, 0)
    /\ BrowserStep

\* socket.onopen: the connection is made
SocketOpens ==
    \E s \in DOMAIN transport.sockets :
        /\ transport.sockets[s].state = "connecting"
        /\ transport' = [transport EXCEPT !.sockets[s].state = "open",
                                          !.sockets[s].opened = TRUE,
                                          !.reconnectAttempts = 0]
        /\ BrowserStep

\* socket.onclose: the connection is lost, cannot be made (the error event
\* before it only rejects the promise of connect), or was closed
SocketCloses ==
    \E s \in DOMAIN transport.sockets :
        /\ transport.sockets[s].state \in {"connecting", "open", "closing"}
        /\ transport' = attemptReconnect([transport EXCEPT !.sockets[s].state = "closed"], s)
        /\ BrowserStep

\* the callback of a timer set by attemptReconnect: await this.connect()
ReconnectTimerFires ==
    \E i \in DOMAIN transport.timers :
        /\ transport.timers[i].state = "pending"
        /\ Len(transport.sockets) < MaxSockets
        /\ transport' = connect([transport EXCEPT !.timers[i].state = "fired"], i)
        /\ BrowserStep

\* dispose(): clearTimeout of the timer held, close() of the socket held
Dispose ==
    LET i == transport.reconnectTimer
        s == transport.socket
    IN  /\ transport' =
               [transport EXCEPT
                   !.timers = IF i # 0 /\ @[i].state = "pending"
                              THEN [@ EXCEPT ![i].state = "cleared"] ELSE @,
                   !.reconnectTimer = 0,
                   !.sockets = IF s # 0 /\ @[s].state \in {"connecting", "open"}
                               THEN [@ EXCEPT ![s].state = "closing"] ELSE @,
                   !.socket = 0,
                   !.disposed = TRUE]
        /\ BrowserStep

NextTransport ==
    \/ ClientConnects
    \/ SocketOpens
    \/ SocketCloses
    \/ ReconnectTimerFires
    \/ Dispose

SpecTransport == Init /\ [][NextTransport]_vars

(***************************************************************************)
(* Properties of the browser transport, checked under SpecTransport.       *)
(***************************************************************************)
RECURSIVE Consecutive(_)
\* which attempt in a row timer i is: the first after a connection that was
\* open (or after the connect of the language client), else the one after
\* the attempt that made the socket whose close set the timer
Consecutive(i) ==
    LET s == transport.timers[i].socket
    IN  IF transport.sockets[s].opened \/ transport.sockets[s].timer = 0 THEN 1
        ELSE Consecutive(transport.sockets[s].timer) + 1

Pending == {i \in DOMAIN transport.timers : transport.timers[i].state = "pending"}

\* C33: every timer is that of an attempt numbered n of at most 10 in a row
\* and is set to min(1000 * 2^(n-1), 30000) ms; at most one timer is pending;
\* a socket that opens resets the attempt counter to 0; and a socket that
\* closes sets a timer unless it was made by the tenth attempt in a row and
\* never opened.
C33_ReconnectBackoff ==
    /\ [](\A i \in DOMAIN transport.timers :
             LET n == Consecutive(i)
             IN  /\ n <= 10
                 /\ transport.timers[i].delay
                        = IF 1000 * 2^(n - 1) < 30000 THEN 1000 * 2^(n - 1) ELSE 30000)
    /\ [](Cardinality(Pending) <= 1)
    /\ [][\A s \in DOMAIN transport.sockets :
             /\ (transport.sockets[s].state = "connecting"
                     /\ transport'.sockets[s].state = "open")
                    => transport'.reconnectAttempts = 0
             /\ (transport.sockets[s].state # "closed"
                     /\ transport'.sockets[s].state = "closed")
                    => \/ /\ Len(transport'.timers) = Len(transport.timers) + 1
                          /\ transport'.timers[Len(transport'.timers)]
                                 = [delay |-> transport'.timers[Len(transport'.timers)].delay,
                                    socket |-> s, state |-> "pending"]
                       \/ /\ ~transport.sockets[s].opened
                          /\ transport.sockets[s].timer # 0
                          /\ Consecutive(transport.sockets[s].timer) = 10]_vars

\* ten attempts in a row were made after a connection that had been
\* re-established, the last of them delayed 30000 ms, the socket it made is
\* closed and no timer is pending
C33_Witness ==
    \E i, j \in DOMAIN transport.timers :
        /\ 1 < j /\ j < i
        /\ Consecutive(j) = 1
        /\ Consecutive(i) = 10
        /\ transport.timers[i].delay = 30000
        /\ \E s \in DOMAIN transport.sockets :
               transport.sockets[s].timer = i /\ transport.sockets[s].state = "closed"
        /\ Pending = {}

\* C39: once dispose() has been called no reconnect timer is pending.
C39_DisposedStaysQuiet == transport.disposed => Pending = {}

====
